---- MODULE Spec2Model ----
(***************************************************************************)
(* Model of the MODIS-overpass / MSG co-registration download scripts:     *)
(*   rs_tools/_src/data/msg/downloader_msg_modis_overpass.py  (download)   *)
(*   rs_tools/_src/data/modis/downloader_terra.py             (download)   *)
(* One run of one of the two `download` entry points is a sequential       *)
(* program; every statement that talks to a collaborator is one step.      *)
(***************************************************************************)
EXTENDS Integers, Sequences, FiniteSets, TLC

\* ------------------------------------------------------------------ bounds
\* largest number of granules one catalog response holds
MaxGranules == 3

\* ------------------------------------------------------------ input spaces
\* product short names, spelled out as character sequences
MYD021KM == <<"M", "Y", "D", "0", "2", "1", "K", "M">>
MOD021KM == <<"M", "O", "D", "0", "2", "1", "K", "M">>
VNP02MOD == <<"V", "N", "P", "0", "2", "M", "O", "D">>
myd021km == <<"m", "y", "d", "0", "2", "1", "k", "m">>
MO == <<"M", "O">>

Products == {MYD021KM, MOD021KM, VNP02MOD, myd021km, MO}

\* granule identifiers a catalog response may hold; 0 is an identifier whose
\* name does not follow the granule naming pattern
GranuleIds == 0 .. 2

CatalogResponses == UNION {[1 .. n -> GranuleIds] : n \in 0 .. MaxGranules}

\* ---------------------------------------------------------- pure functions
\* str.startswith
StartsWith(s, p) == Len(s) >= Len(p) /\ SubSeq(s, 1, Len(p)) = p

\* modis_granule_to_datetime: acquisition instant (minutes) of a granule
WellFormed(g) == g # 0
GranuleToDatetime(g) == 10 * g + 5

\* the scan of the geostationary imager nearest to instant t (15 min cadence)
NearestScan(t) == ((2 * t + 15) \div 30) * 15

\* name of the file msg_download saves for query instant t
MsgFile(instrument, t) == <<instrument, NearestScan(t)>>

\* MSGFileName.from_filename(f).datetime_acquisition
DatetimeAcquisition(f) == f[2]

\* str(datetime)
Str(t) == <<"str", t>>

\* the subsequence of s at the indices in S, in the order of s
Pick(s, S) ==
  LET F[i \in 0 .. Len(s)] ==
        IF i = 0 THEN <<>>
        ELSE IF i \in S THEN Append(F[i - 1], s[i]) ELSE F[i - 1]
  IN F[Len(s)]

\* msg_download(predefined_timestamps, instrument): the pairs
\* <<files, successful queries>> it can return. The queries are the requested
\* instants that found a scan, in request order; the files are the files of
\* those queries, of which the transport may have lost a tail or doubled the
\* last one.
MsgDownloadResults(timestamps, instrument) ==
  UNION { LET q == Pick(timestamps, S)
              full == [i \in 1 .. Len(q) |-> MsgFile(instrument, q[i])]
          IN  { <<SubSeq(full, 1, k), q>> : k \in 0 .. Len(q) }
                \cup (IF Len(q) > 0
                        THEN { <<Append(full, full[Len(q)]), q>> }
                        ELSE {})
        : S \in SUBSET (1 .. Len(timestamps)) }

\* methods each polar downloader class defines
TerraMethods == {"download", "download_cloud_mask"}
AquaMethods == {"download", "download_cloud_mask", "download_fire_mask"}
Methods(d) == IF d = "terra" THEN TerraMethods ELSE AquaMethods

\* ------------------------------------------------------------------- state
VARIABLES
  prog,              \* which entry point runs: "overpass" or "terra"
  pc,                \* position in the entry point
  modis_product, cloud_mask, fire_mask,   \* arguments
  modis_results,     \* granules returned by the catalog
  modis_timestamps,  \* their instants
  modis_downloader,  \* "unset", "aqua" or "terra"
  predefined_timestamps,  \* field of dc_msg_download
  msg_filenames, msg_queries, msg_cm_filenames, msg_cm_queries,
  df,                \* the summary frame: sequence of [name, values] columns
  csv,               \* the written manifest (<<>> while none), csv_written
  csv_written,
  calls,             \* collaborator operations invoked so far, in order
  failed,            \* index in calls of the invocation that raised, or 0
  err                \* the exception that ended the run, or "none"

vars == <<prog, pc, modis_product, cloud_mask, fire_mask, modis_results,
          modis_timestamps, modis_downloader, predefined_timestamps,
          msg_filenames, msg_queries, msg_cm_filenames, msg_cm_queries,
          df, csv, csv_written, calls, failed, err>>

args == <<prog, modis_product, cloud_mask, fire_mask>>
msgres == <<msg_filenames, msg_queries, msg_cm_filenames, msg_cm_queries>>
out == <<df, csv, csv_written>>

Call(obj, op, arg) == [obj |-> obj, op |-> op, arg |-> arg]

Init ==
  /\ prog \in {"overpass", "terra"}
  /\ pc = IF prog = "overpass" THEN "login" ELSE "t_base"
  /\ modis_product \in (IF prog = "overpass" THEN Products ELSE {MOD021KM})
  /\ cloud_mask \in BOOLEAN
  /\ fire_mask \in BOOLEAN
  /\ modis_results = <<>>
  /\ modis_timestamps = <<>>
  /\ modis_downloader = IF prog = "overpass" THEN "unset" ELSE "terra"
  /\ predefined_timestamps = <<>>
  /\ msg_filenames = <<>>
  /\ msg_queries = <<>>
  /\ msg_cm_filenames = <<>>
  /\ msg_cm_queries = <<>>
  /\ df = <<>>
  /\ csv = <<>>
  /\ csv_written = FALSE
  /\ calls = <<>>
  /\ failed = 0
  /\ err = "none"

\* an invocation that raises e: the exception leaves `download`
Raise(c, e) ==
  /\ calls' = Append(calls, c)
  /\ failed' = Len(calls) + 1
  /\ err' = e
  /\ pc' = "raised"

\* an invocation that returns
Return(c, next) ==
  /\ calls' = Append(calls, c)
  /\ pc' = next
  /\ UNCHANGED <<failed, err>>

\* the statement itself raises, no collaborator involved
Throw(e) ==
  /\ err' = e
  /\ pc' = "raised"
  /\ UNCHANGED <<calls, failed>>

\* _check_earthdata_login()
CheckLogin ==
  /\ pc = "login"
  /\ \/ Return(Call("earthdata", "login", <<>>), "query")
     \/ Raise(Call("earthdata", "login", <<>>), "AuthenticationError")
  /\ UNCHANGED <<args, modis_results, modis_timestamps, modis_downloader,
                 predefined_timestamps, msgres, out>>

\* modis_results = query_modis_timestamps(...)
QueryModis ==
  /\ pc = "query"
  /\ \/ /\ \E r \in CatalogResponses : modis_results' = r
        /\ Return(Call("catalog", "query", <<>>), "extract")
     \/ /\ Raise(Call("catalog", "query", <<>>), "TransportError")
        /\ UNCHANGED modis_results
  /\ UNCHANGED <<args, modis_timestamps, modis_downloader,
                 predefined_timestamps, msgres, out>>

\* the list in reverse catalog order
TimestampsReversed(results) ==
  [i \in 1 .. Len(results) |->
     GranuleToDatetime(results[Len(results) + 1 - i])]

\* modis_timestamps = [modis_granule_to_datetime(x) for x in modis_results]
Timestamps(results) ==
  [i \in 1 .. Len(results) |-> GranuleToDatetime(results[i])]

ExtractTimestamps ==
  /\ pc = "extract"
  /\ IF \E i \in 1 .. Len(modis_results) : ~WellFormed(modis_results[i])
       THEN /\ Throw("MalformedIdentifierError")
            /\ UNCHANGED modis_timestamps
       ELSE /\ modis_timestamps' = Timestamps(modis_results)
            /\ pc' = "mkdir"
            /\ UNCHANGED <<calls, failed, err>>
  /\ UNCHANGED <<args, modis_results, modis_downloader,
                 predefined_timestamps, msgres, out>>

\* modis_save_path.mkdir(...); the two downloader objects are constructed
InitDownloaders ==
  /\ pc = "mkdir"
  /\ Return(Call("fs", "mkdir", <<>>), "select")
  /\ UNCHANGED <<args, modis_results, modis_timestamps, modis_downloader,
                 predefined_timestamps, msgres, out>>

\* if startswith("MYD") ... elif startswith("MOD") ... (no else branch)
Select(product, current) ==
  IF StartsWith(product, <<"M", "Y", "D">>) THEN "aqua"
  ELSE IF StartsWith(product, <<"M", "O", "D">>) THEN "terra"
  ELSE current

SelectDownloader ==
  /\ pc = "select"
  /\ modis_downloader' = Select(modis_product, modis_downloader)
  /\ pc' = "polar_base"
  /\ UNCHANGED <<args, modis_results, modis_timestamps,
                 predefined_timestamps, msgres, out, calls, failed, err>>

\* d.op(): the attribute lookup fails when class d does not define op,
\* otherwise the transport either delivers or raises
PolarInvoke(d, op, next) ==
  IF op \in Methods(d)
    THEN \/ Return(Call(d, op, <<>>), next)
         \/ Raise(Call(d, op, <<>>), "TransportError")
    ELSE Raise(Call(d, op, <<>>), "AttributeError")

\* modis_filenames = modis_downloader.download()
PolarBase ==
  /\ pc = "polar_base"
  /\ IF modis_downloader = "unset"
       THEN Throw("UnboundLocalError")
       ELSE PolarInvoke(modis_downloader, "download", "polar_cm")
  /\ UNCHANGED <<args, modis_results, modis_timestamps, modis_downloader,
                 predefined_timestamps, msgres, out>>

\* a cloud-mask download whose failure is logged and skipped
PolarCloudMaskSwallowed ==
  /\ pc = "polar_cm"
  /\ IF cloud_mask
       THEN LET c == Call(modis_downloader, "download_cloud_mask", <<>>)
            IN \/ Return(c, "polar_fm")
               \/ /\ calls' = Append(calls, c)
                  /\ failed' = Len(calls) + 1
                  /\ pc' = "polar_fm"
                  /\ UNCHANGED err
       ELSE /\ pc' = "polar_fm"
            /\ UNCHANGED <<calls, failed, err>>
  /\ UNCHANGED <<args, modis_results, modis_timestamps, modis_downloader,
                 predefined_timestamps, msgres, out>>

\* if cloud_mask: modis_downloader.download_cloud_mask()
PolarCloudMask ==
  /\ pc = "polar_cm"
  /\ IF cloud_mask
       THEN PolarInvoke(modis_downloader, "download_cloud_mask", "polar_fm")
       ELSE /\ pc' = "polar_fm"
            /\ UNCHANGED <<calls, failed, err>>
  /\ UNCHANGED <<args, modis_results, modis_timestamps, modis_downloader,
                 predefined_timestamps, msgres, out>>

\* a fire-mask download hard-wired to the Aqua downloader
PolarFireMaskOnAqua ==
  /\ pc = "polar_fm"
  /\ IF fire_mask
       THEN PolarInvoke("aqua", "download_fire_mask", "msg_base")
       ELSE /\ pc' = "msg_base"
            /\ UNCHANGED <<calls, failed, err>>
  /\ UNCHANGED <<args, modis_results, modis_timestamps, modis_downloader,
                 predefined_timestamps, msgres, out>>

\* if fire_mask: modis_downloader.download_fire_mask()
PolarFireMask ==
  /\ pc = "polar_fm"
  /\ IF fire_mask
       THEN PolarInvoke(modis_downloader, "download_fire_mask", "msg_base")
       ELSE /\ pc' = "msg_base"
            /\ UNCHANGED <<calls, failed, err>>
  /\ UNCHANGED <<args, modis_results, modis_timestamps, modis_downloader,
                 predefined_timestamps, msgres, out>>

\* dc_msg_download = MSGDownload(predefined_timestamps=modis_timestamps, ...)
\* msg_filenames, msg_queries = dc_msg_download.download()
MsgBase ==
  /\ pc = "msg_base"
  /\ predefined_timestamps' = modis_timestamps
  /\ LET c == Call("msg", "download", predefined_timestamps')
     IN \/ /\ \E r \in MsgDownloadResults(predefined_timestamps', "HRSEVIRI") :
                /\ msg_filenames' = r[1]
                /\ msg_queries' = r[2]
           /\ Return(c, "msg_cm")
        \/ /\ Raise(c, "TransportError")
           /\ UNCHANGED <<msg_filenames, msg_queries>>
  /\ UNCHANGED <<args, modis_results, modis_timestamps, modis_downloader,
                 msg_cm_filenames, msg_cm_queries, out>>

\* if cloud_mask:
\*     msg_cm_filenames, msg_cm_queries = dc_msg_download.download_cloud_mask()
MsgCloudMask ==
  /\ pc = "msg_cm"
  /\ IF cloud_mask
       THEN LET c == Call("msg", "download_cloud_mask", predefined_timestamps)
            IN \/ /\ \E r \in MsgDownloadResults(predefined_timestamps, "CLM") :
                       /\ msg_cm_filenames' = r[1]
                       /\ msg_cm_queries' = r[2]
                  /\ Return(c, "summary")
               \/ /\ Raise(c, "TransportError")
                  /\ UNCHANGED <<msg_cm_filenames, msg_cm_queries>>
       ELSE /\ pc' = "summary"
            /\ UNCHANGED <<msg_cm_filenames, msg_cm_queries,
                           calls, failed, err>>
  /\ UNCHANGED <<args, modis_results, modis_timestamps, modis_downloader,
                 predefined_timestamps, msg_filenames, msg_queries, out>>

\* ------------------------------------------------------- the summary file
\* a frame is a sequence of columns; all columns have the length of the index
NRows(frame) == IF frame = <<>> THEN 0 ELSE Len(frame[1].values)
Columns(frame) == {frame[i].name : i \in 1 .. Len(frame)}
Column(frame, name) ==
  (CHOOSE i \in 1 .. Len(frame) : frame[i].name = name)

\* df[name] = vals succeeds on a frame without columns or when vals has as
\* many entries as the index, and raises ValueError otherwise
CanSet(frame, vals) == frame = <<>> \/ Len(vals) = NRows(frame)
SetColumn(frame, name, vals) ==
  Append(frame, [name |-> name, values |-> vals])

\* the MODIS column taken from the catalog list
list_modis_times_requested == modis_timestamps

list_modis_times == msg_queries

list_msg_times ==
  [x \in 1 .. Len(msg_filenames) |->
     Str(DatetimeAcquisition(msg_filenames[x]))]

list_msg_cm_times ==
  [x \in 1 .. Len(msg_cm_filenames) |->
     Str(DatetimeAcquisition(msg_cm_filenames[x]))]

\* df = pd.DataFrame(); df['MODIS'] = ...; df['MSG'] = ...
BaseFrame ==
  SetColumn(SetColumn(<<>>, "MODIS", list_modis_times), "MSG", list_msg_times)

\* the cloud-mask columns set without regard to the index
ForceCloudMask(frame) ==
  SetColumn(SetColumn(frame, "MODIS_cloudmask", msg_cm_queries),
            "MSG_cloudmask", list_msg_cm_times)

\* try: df['MODIS_cloudmask'] = ...; df['MSG_cloudmask'] = ...
\* except Exception: log
TryCloudMask(frame) ==
  IF ~CanSet(frame, msg_cm_queries) THEN frame
  ELSE LET f1 == SetColumn(frame, "MODIS_cloudmask", msg_cm_queries)
       IN IF ~CanSet(f1, list_msg_cm_times) THEN f1
          ELSE SetColumn(f1, "MSG_cloudmask", list_msg_cm_times)

\* the block from `if len(msg_filenames) > 0:` to df.to_csv(...)
CompileSummary ==
  /\ pc = "summary"
  /\ IF Len(msg_filenames) > 0
       THEN IF Len(msg_filenames) # Len(msg_queries)
              THEN /\ Throw("AssertionError")
                   /\ UNCHANGED out
            ELSE IF cloud_mask /\ Len(msg_cm_filenames) # Len(msg_cm_queries)
              THEN /\ Throw("AssertionError")
                   /\ df' = BaseFrame
                   /\ UNCHANGED <<csv, csv_written>>
            ELSE /\ df' = IF cloud_mask THEN TryCloudMask(BaseFrame)
                                        ELSE BaseFrame
                 /\ csv' = df'
                 /\ csv_written' = TRUE
                 /\ Return(Call("fs", "to_csv", <<>>), "done")
       ELSE /\ pc' = "done"
            /\ UNCHANGED <<out, calls, failed, err>>
  /\ UNCHANGED <<args, modis_results, modis_timestamps, modis_downloader,
                 predefined_timestamps, msgres>>

\* ------------------------------------------- downloader_terra.py: download
\* modis_filenames = dc_terra_download.download()
TerraBase ==
  /\ pc = "t_base"
  /\ PolarInvoke("terra", "download", "t_cm")
  /\ UNCHANGED <<args, modis_results, modis_timestamps, modis_downloader,
                 predefined_timestamps, msgres, out>>

\* if cloud_mask: dc_terra_download.download_cloud_mask()
TerraCloudMask ==
  /\ pc = "t_cm"
  /\ IF cloud_mask
       THEN PolarInvoke("terra", "download_cloud_mask", "t_fm")
       ELSE /\ pc' = "t_fm"
            /\ UNCHANGED <<calls, failed, err>>
  /\ UNCHANGED <<args, modis_results, modis_timestamps, modis_downloader,
                 predefined_timestamps, msgres, out>>

\* if fire_mask: dc_terra_download.download_fire_mask()
TerraFireMask ==
  /\ pc = "t_fm"
  /\ IF fire_mask
       THEN PolarInvoke("terra", "download_fire_mask", "done")
       ELSE /\ pc' = "done"
            /\ UNCHANGED <<calls, failed, err>>
  /\ UNCHANGED <<args, modis_results, modis_timestamps, modis_downloader,
                 predefined_timestamps, msgres, out>>

Next ==
  \/ CheckLogin
  \/ QueryModis
  \/ ExtractTimestamps
  \/ InitDownloaders
  \/ SelectDownloader
  \/ PolarBase
  \/ PolarCloudMask
  \/ PolarFireMask
  \/ MsgBase
  \/ MsgCloudMask
  \/ CompileSummary
  \/ TerraBase
  \/ TerraCloudMask
  \/ TerraFireMask

Spec == Init /\ [][Next]_vars

TypeOK ==
  /\ pc \in {"login", "query", "extract", "mkdir", "select", "polar_base",
             "polar_cm", "polar_fm", "msg_base", "msg_cm", "summary",
             "t_base", "t_cm", "t_fm", "done", "raised"}
  /\ modis_downloader \in {"unset", "aqua", "terra"}
  /\ (pc = "raised") = (err # "none")

\* ---------------------------------------------------------------- helpers
Overpass == prog = "overpass"
Ended == pc \in {"done", "raised"}
AfterSelect == {"polar_base", "polar_cm", "polar_fm", "msg_base", "msg_cm",
                "summary", "done"}
IsAqua(product) == StartsWith(product, <<"M", "Y", "D">>)
IsTerra(product) == StartsWith(product, <<"M", "O", "D">>)
Recognized(product) == IsAqua(product) \/ IsTerra(product)
Polar == {"aqua", "terra"}
Invoked(obj, op) == \E i \in 1 .. Len(calls) :
                      calls[i].obj = obj /\ calls[i].op = op
\* the catalog query has returned
QueryReturned == Overpass /\ Len(calls) >= 2 /\ failed # 2
\* the summary block has been entered and left
SummaryRan == Overpass /\ (pc = "done" \/ (pc = "raised" /\ err = "AssertionError"))
HasColumn(frame, name) == name \in Columns(frame)
Values(frame, name) == frame[Column(frame, name)].values

\* ------------------------------------------------------------- properties
\* C1: a product name with the Aqua prefix selects the Aqua downloader, one
\* with the Terra prefix the Terra downloader, and any other name ends the
\* run with an UnknownProductError of the selector: the run never goes on
\* past the selection and no polar download is attempted.
C1_SelectorRaisesOnUnknownPrefix ==
  Overpass =>
    /\ (pc \in AfterSelect /\ IsAqua(modis_product))
         => modis_downloader = "aqua"
    /\ (pc \in AfterSelect /\ IsTerra(modis_product))
         => modis_downloader = "terra"
    /\ ~Recognized(modis_product)
         => /\ pc \notin AfterSelect
            /\ err # "UnboundLocalError"
            /\ \A i \in 1 .. Len(calls) : calls[i].obj \notin Polar

\* C2: a run never finishes normally, and never writes a manifest, with
\* len(msg_filenames) # len(msg_queries); the empty file list is no exception.
C2_BaseMismatchRaises ==
  /\ (Overpass /\ pc = "done") => Len(msg_filenames) = Len(msg_queries)
  /\ csv_written => Len(msg_filenames) = Len(msg_queries)

\* C3 as stated: a written manifest has len(modis_timestamps) rows, row i
\* holding modis_timestamps[i] in MODIS and the acquisition time of
\* msg_filenames[i] in MSG.
C3_RowsFollowCatalogList ==
  csv_written =>
    /\ HasColumn(csv, "MODIS") /\ HasColumn(csv, "MSG")
    /\ NRows(csv) = Len(modis_timestamps)
    /\ Len(Values(csv, "MSG")) = Len(modis_timestamps)
    /\ \A i \in 1 .. Len(modis_timestamps) :
         /\ Values(csv, "MODIS")[i] = modis_timestamps[i]
         /\ Values(csv, "MSG")[i] = Str(DatetimeAcquisition(msg_filenames[i]))

\* C3 amended: a written manifest has len(msg_queries) rows, msg_queries being
\* the matched queries the geostationary base download returned; row i holds
\* msg_queries[i] in MODIS and the acquisition time of msg_filenames[i] in
\* MSG, in that order.
C3_RowsFollowMatchedQueries ==
  csv_written =>
    /\ HasColumn(csv, "MODIS") /\ HasColumn(csv, "MSG")
    /\ Len(msg_filenames) = Len(msg_queries)
    /\ Len(Values(csv, "MODIS")) = Len(msg_queries)
    /\ Len(Values(csv, "MSG")) = Len(msg_queries)
    /\ \A i \in 1 .. Len(msg_queries) :
         /\ Values(csv, "MODIS")[i] = msg_queries[i]
         /\ Values(csv, "MSG")[i] = Str(DatetimeAcquisition(msg_filenames[i]))

\* a manifest of two rows for three catalog granules, whose realized MSG time
\* differs from the query time
C3_Witness ==
  /\ csv_written
  /\ Len(modis_timestamps) = 3
  /\ NRows(csv) = 2
  /\ Values(csv, "MSG")[1] # Str(Values(csv, "MODIS")[1])

\* C4: with cloud-mask requested and a consistent, non-empty base result, a
\* cloud-mask result of unequal lengths still lets the run finish and write
\* the base manifest with all its rows and only the columns MODIS and MSG.
C4_CloudMaskMismatchIsolated ==
  ( /\ SummaryRan
    /\ cloud_mask
    /\ Len(msg_filenames) > 0
    /\ Len(msg_filenames) = Len(msg_queries)
    /\ Len(msg_cm_filenames) # Len(msg_cm_queries) )
  => /\ pc = "done"
     /\ err = "none"
     /\ csv_written
     /\ Columns(csv) = {"MODIS", "MSG"}
     /\ NRows(csv) = Len(msg_filenames)

\* C5 as stated: in every written manifest of a run with cloud-mask requested
\* the two cloud-mask columns are present iff
\* len(msg_cm_filenames) = len(msg_cm_queries), and both or neither.
C5_ColumnsIffCloudMaskLengthsEqual ==
  (csv_written /\ cloud_mask) =>
    /\ HasColumn(csv, "MODIS_cloudmask") <=> HasColumn(csv, "MSG_cloudmask")
    /\ HasColumn(csv, "MODIS_cloudmask")
         <=> Len(msg_cm_filenames) = Len(msg_cm_queries)

\* C5 amended: in every written manifest of a run with cloud-mask requested
\* the two cloud-mask columns are present iff len(msg_cm_filenames) =
\* len(msg_cm_queries) = the number of base rows, and both or neither.
C5_ColumnsIffLengthsEqualRows ==
  (csv_written /\ cloud_mask) =>
    /\ HasColumn(csv, "MODIS_cloudmask") <=> HasColumn(csv, "MSG_cloudmask")
    /\ HasColumn(csv, "MODIS_cloudmask")
         <=> ( /\ Len(msg_cm_filenames) = Len(msg_cm_queries)
               /\ Len(msg_cm_queries) = Len(msg_filenames) )
    /\ HasColumn(csv, "MODIS_cloudmask")
         => /\ Values(csv, "MODIS_cloudmask") = msg_cm_queries
            /\ Len(Values(csv, "MSG_cloudmask")) = NRows(csv)

\* a manifest written without the cloud-mask columns because the cloud-mask
\* result, consistent in itself, has fewer entries than the base rows
C5_Witness ==
  /\ csv_written /\ cloud_mask
  /\ Len(msg_cm_filenames) = Len(msg_cm_queries)
  /\ Len(msg_cm_queries) = 2
  /\ NRows(csv) = 3
  /\ Columns(csv) = {"MODIS", "MSG"}

C7_NoMissingCapabilityInvoked ==
  /\ \A i \in 1 .. Len(calls) :
       calls[i].obj \in Polar => calls[i].op \in Methods(calls[i].obj)
  /\ err # "AttributeError"
  /\ (Ended /\ fire_mask /\ modis_downloader = "terra"
        /\ Invoked("terra", "download")
        /\ (cloud_mask => Invoked("terra", "download_cloud_mask"))
        /\ err # "TransportError")
       => err = "ConfigurationError"

\* C8: once the catalog query or a polar download of the orchestrator has
\* failed, the run has ended with that failure: the failed invocation is the
\* last one and was made once, no geostationary download was invoked and no
\* manifest is written.
C8_AbortPolicy ==
  \A k \in 1 .. Len(calls) :
    (Overpass /\ calls[k].obj \in Polar \cup {"catalog"} /\ failed = k)
    => /\ pc = "raised"
       /\ k = Len(calls)
       /\ err = IF /\ calls[k].obj \in Polar
                    /\ calls[k].op \notin Methods(calls[k].obj)
                  THEN "AttributeError" ELSE "TransportError"
       /\ \A i \in 1 .. Len(calls) :
            /\ calls[i].obj # "msg"
            /\ calls[i].op # "to_csv"
            /\ (calls[i] = calls[k] => i = k)
       /\ ~csv_written /\ csv = <<>>

\* a polar cloud-mask download failed after granules had been found
C8_Witness ==
  /\ Overpass /\ failed > 0
  /\ calls[failed] = Call("aqua", "download_cloud_mask", <<>>)
  /\ Len(modis_timestamps) > 0
  /\ pc = "raised"

\* C9: the timestamp list has the length of the granule list, element i is
\* the instant of granule i in catalog order, and both geostationary
\* downloads receive exactly this list.
C9_TimestampListVerbatim ==
  /\ (Overpass /\ (pc = "mkdir" \/ Len(calls) >= 3))
       => /\ Len(modis_timestamps) = Len(modis_results)
          /\ \A i \in 1 .. Len(modis_results) :
               modis_timestamps[i] = GranuleToDatetime(modis_results[i])
  /\ \A k \in 1 .. Len(calls) :
       calls[k].obj = "msg"
         => /\ Len(calls[k].arg) = Len(modis_results)
            /\ \A i \in 1 .. Len(modis_results) :
                 calls[k].arg[i] = GranuleToDatetime(modis_results[i])

\* both geostationary downloads were invoked for a catalog response that is
\* neither chronological nor free of duplicates
C9_Witness ==
  /\ modis_results = <<2, 1, 1>>
  /\ Invoked("msg", "download")
  /\ Invoked("msg", "download_cloud_mask")

\* position of an invocation in the fixed order of the orchestrator
Rank(c) ==
  CASE c.obj = "earthdata" -> 1
    [] c.obj = "catalog" -> 2
    [] c.op = "mkdir" -> 3
    [] c.obj \in Polar /\ c.op = "download" -> 4
    [] c.obj \in Polar /\ c.op = "download_cloud_mask" -> 5
    [] c.obj \in Polar /\ c.op = "download_fire_mask" -> 6
    [] c.obj = "msg" /\ c.op = "download" -> 7
    [] c.obj = "msg" /\ c.op = "download_cloud_mask" -> 8
    [] c.op = "to_csv" -> 9

\* C10: the invocations of a run of the orchestrator follow the fixed order
\* login, catalog query, polar base, polar cloud-mask, polar fire-mask,
\* geostationary base, geostationary cloud-mask, manifest write, each at most
\* once; the mask downloads only with their flag; nothing is downloaded
\* before login and query; geostationary downloads only after the polar base
\* download; polar downloads only on the selected variant; and nothing
\* follows the manifest write.
C10_StepOrdering ==
  Overpass =>
    /\ \A i, j \in 1 .. Len(calls) :
         i < j => Rank(calls[i]) < Rank(calls[j])
    /\ \A i \in 1 .. Len(calls) :
         /\ Rank(calls[i]) \in {5, 8} => cloud_mask
         /\ Rank(calls[i]) = 6 => fire_mask
         /\ Rank(calls[i]) >= 2 => (i >= 2 /\ Rank(calls[1]) = 1)
         /\ Rank(calls[i]) >= 3 => (i >= 3 /\ Rank(calls[2]) = 2)
         /\ Rank(calls[i]) >= 5 => (i >= 5 /\ Rank(calls[4]) = 4)
         /\ (Rank(calls[i]) >= 6 /\ cloud_mask)
              => \E j \in 1 .. i - 1 : Rank(calls[j]) = 5
         /\ (Rank(calls[i]) >= 7 /\ fire_mask)
              => \E j \in 1 .. i - 1 : Rank(calls[j]) = 6
         /\ Rank(calls[i]) >= 8 => \E j \in 1 .. i - 1 : Rank(calls[j]) = 7
         /\ calls[i].obj \in Polar => calls[i].obj = modis_downloader
    /\ csv_written <=> (Len(calls) > 0 /\ Rank(calls[Len(calls)]) = 9)
    /\ csv_written => pc = "done"

\* a complete run with both masks requested: nine invocations, the manifest
\* write last
C10_Witness ==
  /\ Overpass /\ csv_written /\ cloud_mask /\ fire_mask
  /\ Len(calls) = 9
====
